---- MODULE Spec2Model ----
(***************************************************************************)
(* Model of src/controllers/contactController.js: the relationship state   *)
(* machine (sendFriendRequest, updateFriendRequest, removeFriend,          *)
(* blockUser, cancelRequest, unblockUser) and the friends aggregator       *)
(* (getFriends).  Every handler is an async function; each `await` on the  *)
(* store is a point where another handler may run, so a handler is a       *)
(* sequence of atomic steps, one per store round trip.                     *)
(***************************************************************************)
EXTENDS Integers, Sequences, FiniteSets, TLC

VARIABLES users, rows, nextId, calls, last, lastOk, lastBlock

vars == <<users, rows, nextId, calls, last, lastOk, lastBlock>>

(* ------------------------------ bounds --------------------------------- *)

\* number of users of the interleaved specification; the sequential one has
\* one more, so that a user can have two friends
NumUsers == 2
\* number of handler invocations that can be in flight at once
NumSlots == 2
\* number of relationship rows ever created
MaxId == 2

Slots == 1..NumSlots
RequestIds == 1..(MaxId + 1)
Actions == {"accept", "decline", "other"}

\* the ids a call may name as its target: the users and one id no user has
Targets == users \cup {Cardinality(users) + 1}
PairsOf(U) == {{a, b} : a, b \in U} \ {{a} : a \in U}

(* --------------------------- the stores -------------------------------- *)

NoRow == [id |-> 0, requesterId |-> 0, addresseeId |-> 0, status |-> "none"]

\* User.findByPk: the user record, or null (FALSE) when there is none
User_findByPk(id) == id \in users

\* where: { [Op.or]: [{requesterId, addresseeId},
\*                    {requesterId: addresseeId, addresseeId: requesterId}] }
PairWhere(r, requesterId, addresseeId) ==
  \/ r.requesterId = requesterId /\ r.addresseeId = addresseeId
  \/ r.requesterId = addresseeId /\ r.addresseeId = requesterId

\* Contact.findOne / Contact.findByPk: the rows a query may return
Contact_findPair(S, a, b) == {r \in S : PairWhere(r, a, b)}
Contact_findByPk(S, id) == {r \in S : r.id = id}

\* a unique index on the ordered columns (requesterId, addresseeId) only
UniqueOk_ordered(S, id, requesterId, addresseeId) ==
  \A r \in S : r.id # id =>
    ~(r.requesterId = requesterId /\ r.addresseeId = addresseeId)

\* the store's uniqueness constraint on the unordered pair: a row for
\* {requesterId, addresseeId} may be written only if no other row has the pair
UniqueOk(S, id, requesterId, addresseeId) ==
  \A r \in S : r.id # id =>
    {r.requesterId, r.addresseeId} # {requesterId, addresseeId}

\* Contact.create
Contact_create(S, id, requesterId, addresseeId, status) ==
  S \cup {[id |-> id, requesterId |-> requesterId,
           addresseeId |-> addresseeId, status |-> status]}

\* instance.save(): UPDATE of the changed fields WHERE id = instance.id; no row
\* with that id means nothing is updated and nothing is thrown
Contact_save(S, inst, dirty) ==
  {IF r.id = inst.id
     THEN [id |-> r.id,
           requesterId |-> IF "requesterId" \in dirty THEN inst.requesterId ELSE r.requesterId,
           addresseeId |-> IF "addresseeId" \in dirty THEN inst.addresseeId ELSE r.addresseeId,
           status |-> IF "status" \in dirty THEN inst.status ELSE r.status]
     ELSE r : r \in S}

\* instance.destroy(): DELETE WHERE id = instance.id
Contact_destroy(S, inst) == {r \in S : r.id # inst.id}

\* the fields an assignment marks as changed: those whose value differs
Changed(old, new) ==
  {f \in {"requesterId", "addresseeId", "status"} : old[f] # new[f]}

(* --------------------------- call records ------------------------------ *)

\* a handler invocation: its arguments, its position (pc), the instance it
\* loaded (row) with the fields it assigned (dirty), the events it emitted, the
\* number of store mutations it committed (wrote), what threw into its catch
\* (fault: "constraint" for a write the store rejected, "notify" for the
\* profile lookup or the emit, "primary" and "unread" for the two loads of
\* getFriends), and the latest committed mutation of the pair when a request
\* reached its Contact.create (prev)
Idle ==
  [op |-> "none", actor |-> 0, arg |-> 0, action |-> "none", pc |-> "idle",
   row |-> NoRow, dirty |-> {}, status |-> 0, emitted |-> <<>>, wrote |-> 0,
   fault |-> "none", prev |-> "none", contacts |-> <<>>, counts |-> {},
   friends |-> <<>>, failed |-> {}]

Free(c) == calls[c].pc = "idle"
InFlight(c) == ~Free(c)

NewCall(op, actor, arg, action) ==
  [Idle EXCEPT !.op = op, !.actor = actor, !.arg = arg, !.action = action]

\* res.status(code).json(...): the handler ends
Respond(rec, code) == [rec EXCEPT !.pc = "done", !.status = code]

\* io.to(`user_${to}`).emit(event, ...)
Emit(rec, event, to) == [rec EXCEPT !.emitted = Append(@, <<event, to>>)]

\* a handler starts in slot c and runs up to its first await or its response;
\* `last` is the response the server has just sent, if any
Begin(c, rec) ==
  /\ Free(c)
  /\ last = Idle
  /\ IF rec.pc = "done"
       THEN calls' = calls /\ last' = rec
       ELSE calls' = [calls EXCEPT ![c] = rec] /\ last' = Idle

\* the handler in slot c takes its next step
Step(c, rec) ==
  /\ last = Idle
  /\ IF rec.pc = "done"
       THEN calls' = [calls EXCEPT ![c] = Idle] /\ last' = rec
       ELSE calls' = [calls EXCEPT ![c] = rec] /\ last' = Idle

\* the response has left the server
Return ==
  /\ last # Idle
  /\ last' = Idle
  /\ UNCHANGED <<rows, nextId, calls, lastOk, lastBlock, users>>

\* rows that calls in flight are about to create
Creating == Cardinality({c \in Slots : calls[c].pc = "create"})
CanCreate == (nextId - 1) + Creating < MaxId

\* the most recent committed mutation of a pair's row
Committed(op, pair) == [lastOk EXCEPT ![pair] = op]

(* ------------------------ sendFriendRequest ---------------------------- *)

\* lines 269-300: validation, then the lookup of an existing row for the pair
sendFriendRequest_find(c, requesterId, addresseeId) ==
  LET rec == NewCall("request", requesterId, addresseeId, "none") IN
  /\ IF requesterId = addresseeId
       THEN Begin(c, Respond(rec, 400))
       ELSE IF ~User_findByPk(addresseeId)
         THEN Begin(c, Respond(rec, 400))
         ELSE IF Contact_findPair(rows, requesterId, addresseeId) # {}
           THEN Begin(c, Respond(rec, 409))
           ELSE CanCreate /\ Begin(c, [rec EXCEPT !.pc = "create"])
  /\ UNCHANGED <<rows, nextId, lastOk, lastBlock, users>>

\* lines 302-306: Contact.create; a constraint violation throws into the catch
\* of lines 321-324
sendFriendRequest_create(c) ==
  LET rec == calls[c] IN
  /\ rec.op = "request" /\ rec.pc = "create"
  /\ IF UniqueOk(rows, nextId, rec.actor, rec.arg)
       THEN /\ rows' = Contact_create(rows, nextId, rec.actor, rec.arg, "pending")
            /\ nextId' = nextId + 1
            /\ lastOk' = Committed("request", {rec.actor, rec.arg})
            /\ Step(c, [rec EXCEPT !.pc = "notify", !.wrote = @ + 1,
                                   !.prev = lastOk[{rec.actor, rec.arg}],
                                   !.row = [id |-> nextId, requesterId |-> rec.actor,
                                            addresseeId |-> rec.arg, status |-> "pending"]])
       ELSE /\ UNCHANGED <<rows, nextId, lastOk>>
            /\ Step(c, Respond([rec EXCEPT !.fault = "constraint",
                                           !.prev = lastOk[{rec.actor, rec.arg}]], 500))
  /\ UNCHANGED <<lastBlock, users>>

\* lines 308-320: the sender's profile, the emit, the 201; a missing profile
\* (sender.toJSON() of null) or a throwing emit lands in the catch: 500
sendFriendRequest_notify(c) ==
  LET rec == calls[c] IN
  /\ rec.op = "request" /\ rec.pc = "notify"
  /\ \E fault \in BOOLEAN :
       IF fault
         THEN Step(c, Respond([rec EXCEPT !.fault = "notify"], 500))
         ELSE Step(c, Respond(Emit(rec, "newFriendRequest", rec.arg), 201))
  /\ UNCHANGED <<rows, nextId, lastOk, lastBlock, users>>

(* ----------------------- updateFriendRequest --------------------------- *)

\* the guard of line 344 letting either party of the row respond
updateFriendRequest_find_anyParty(c, currentUserId, requestId, action) ==
  LET rec == NewCall("respond", currentUserId, requestId, action)
      found == Contact_findByPk(rows, requestId) IN
  /\ IF action \notin {"accept", "decline"}
       THEN Begin(c, Respond(rec, 400))
       ELSE IF found = {}
         THEN Begin(c, Respond(rec, 404))
         ELSE \E request \in found :
           IF currentUserId \notin {request.addresseeId, request.requesterId}
             THEN Begin(c, Respond([rec EXCEPT !.row = request], 403))
             ELSE IF request.status # "pending"
               THEN Begin(c, Respond([rec EXCEPT !.row = request], 409))
               ELSE IF action = "accept"
                 THEN Begin(c, [rec EXCEPT !.pc = "save",
                                           !.row = [request EXCEPT !.status = "accepted"],
                                           !.dirty = {"status"}])
                 ELSE Begin(c, [rec EXCEPT !.pc = "destroy", !.row = request])
  /\ UNCHANGED <<rows, nextId, lastOk, lastBlock, users>>

\* lines 331-353: the action check, Contact.findByPk and the three guards;
\* line 356 sets request.status on the loaded instance
updateFriendRequest_find(c, currentUserId, requestId, action) ==
  LET rec == NewCall("respond", currentUserId, requestId, action)
      found == Contact_findByPk(rows, requestId) IN
  /\ IF action \notin {"accept", "decline"}
       THEN Begin(c, Respond(rec, 400))
       ELSE IF found = {}
         THEN Begin(c, Respond(rec, 404))
         ELSE \E request \in found :
           IF request.addresseeId # currentUserId
             THEN Begin(c, Respond([rec EXCEPT !.row = request], 403))
             ELSE IF request.status # "pending"
               THEN Begin(c, Respond([rec EXCEPT !.row = request], 409))
               ELSE IF action = "accept"
                 THEN Begin(c, [rec EXCEPT !.pc = "save",
                                           !.row = [request EXCEPT !.status = "accepted"],
                                           !.dirty = {"status"}])
                 ELSE Begin(c, [rec EXCEPT !.pc = "destroy", !.row = request])
  /\ UNCHANGED <<rows, nextId, lastOk, lastBlock, users>>

\* accept without the write reaching the store
updateFriendRequest_save_lost(c) ==
  LET rec == calls[c] IN
  /\ rec.op = "respond" /\ rec.pc = "save"
  /\ rows' = rows
  /\ lastOk' = Committed("accept", {rec.row.requesterId, rec.row.addresseeId})
  /\ Step(c, [rec EXCEPT !.pc = "notify", !.wrote = @ + 1])
  /\ UNCHANGED <<nextId, lastBlock, users>>

\* line 357: await request.save()
updateFriendRequest_save(c) ==
  LET rec == calls[c] IN
  /\ rec.op = "respond" /\ rec.pc = "save"
  /\ rows' = Contact_save(rows, rec.row, rec.dirty)
  /\ lastOk' = Committed("accept", {rec.row.requesterId, rec.row.addresseeId})
  /\ Step(c, [rec EXCEPT !.pc = "notify", !.wrote = @ + 1])
  /\ UNCHANGED <<nextId, lastBlock, users>>

\* the two rooms of lines 368 and 381 exchanged
updateFriendRequest_notifyAccept_swapped(c) ==
  LET rec == calls[c] IN
  /\ rec.op = "respond" /\ rec.pc = "notify" /\ rec.action = "accept"
  /\ \E fault \in {"none", "acceptor", "sender"} :
       IF fault = "acceptor"
         THEN Step(c, Respond([rec EXCEPT !.fault = "notify"], 500))
         ELSE IF fault = "sender"
           THEN Step(c, Respond(Emit([rec EXCEPT !.fault = "notify"],
                                     "friendRequestAccepted", rec.actor), 500))
           ELSE Step(c, Respond(Emit(Emit(rec, "friendRequestAccepted", rec.actor),
                                     "newFriendAdded", rec.row.requesterId), 200))
  /\ UNCHANGED <<rows, nextId, lastOk, lastBlock, users>>

\* lines 360-395: the two profiles, the two emits, the 200.  acceptor.name of a
\* missing acceptor throws before the first emit, sender.name of a missing
\* sender after it; either lands in the catch of lines 403-406
updateFriendRequest_notifyAccept(c) ==
  LET rec == calls[c] IN
  /\ rec.op = "respond" /\ rec.pc = "notify" /\ rec.action = "accept"
  /\ \E fault \in {"none", "acceptor", "sender"} :
       IF fault = "acceptor"
         THEN Step(c, Respond([rec EXCEPT !.fault = "notify"], 500))
         ELSE IF fault = "sender"
           THEN Step(c, Respond(Emit([rec EXCEPT !.fault = "notify"],
                                     "friendRequestAccepted", rec.row.requesterId), 500))
           ELSE Step(c, Respond(Emit(Emit(rec, "friendRequestAccepted", rec.row.requesterId),
                                     "newFriendAdded", rec.actor), 200))
  /\ UNCHANGED <<rows, nextId, lastOk, lastBlock, users>>

\* line 398: await request.destroy()
updateFriendRequest_destroy(c) ==
  LET rec == calls[c] IN
  /\ rec.op = "respond" /\ rec.pc = "destroy"
  /\ rows' = Contact_destroy(rows, rec.row)
  /\ lastOk' = Committed("decline", {rec.row.requesterId, rec.row.addresseeId})
  /\ Step(c, [rec EXCEPT !.pc = "notify", !.wrote = @ + 1])
  /\ UNCHANGED <<nextId, lastBlock, users>>

\* lines 399-401: the emit to the requester and the 200
updateFriendRequest_notifyDecline(c) ==
  LET rec == calls[c] IN
  /\ rec.op = "respond" /\ rec.pc = "notify" /\ rec.action = "decline"
  /\ \E fault \in BOOLEAN :
       IF fault
         THEN Step(c, Respond([rec EXCEPT !.fault = "notify"], 500))
         ELSE Step(c, Respond(Emit(rec, "friendRequestDeclined", rec.row.requesterId), 200))
  /\ UNCHANGED <<rows, nextId, lastOk, lastBlock, users>>

(* ---------------------------- removeFriend ----------------------------- *)

\* removeFriend emitting friendRemoved before it awaits the destroy
removeFriend_find_emitFirst(c, currentUserId, friendId) ==
  LET rec == NewCall("remove", currentUserId, friendId, "none")
      found == {r \in Contact_findPair(rows, currentUserId, friendId) :
                  r.status = "accepted"} IN
  /\ IF found = {}
       THEN Begin(c, Respond(rec, 404))
       ELSE \E friendship \in found :
              Begin(c, Emit([rec EXCEPT !.pc = "destroy", !.row = friendship],
                            "friendRemoved", friendId))
  /\ UNCHANGED <<rows, nextId, lastOk, lastBlock, users>>

\* lines 413-429: the accepted row of the pair, or 404
removeFriend_find(c, currentUserId, friendId) ==
  LET rec == NewCall("remove", currentUserId, friendId, "none")
      found == {r \in Contact_findPair(rows, currentUserId, friendId) :
                  r.status = "accepted"} IN
  /\ IF found = {}
       THEN Begin(c, Respond(rec, 404))
       ELSE \E friendship \in found :
              Begin(c, [rec EXCEPT !.pc = "destroy", !.row = friendship])
  /\ UNCHANGED <<rows, nextId, lastOk, lastBlock, users>>

\* line 430: await friendship.destroy()
removeFriend_destroy(c) ==
  LET rec == calls[c] IN
  /\ rec.op = "remove" /\ rec.pc = "destroy"
  /\ rows' = Contact_destroy(rows, rec.row)
  /\ lastOk' = Committed("remove", {rec.row.requesterId, rec.row.addresseeId})
  /\ Step(c, [rec EXCEPT !.pc = "notify", !.wrote = @ + 1])
  /\ UNCHANGED <<nextId, lastBlock, users>>

\* lines 431-433: the emit to the friend and the 200
removeFriend_notify(c) ==
  LET rec == calls[c] IN
  /\ rec.op = "remove" /\ rec.pc = "notify"
  /\ \E fault \in BOOLEAN :
       IF fault
         THEN Step(c, Respond([rec EXCEPT !.fault = "notify"], 500))
         ELSE Step(c, Respond(Emit(rec, "friendRemoved", rec.arg), 200))
  /\ UNCHANGED <<rows, nextId, lastOk, lastBlock, users>>

(* ------------------------------ blockUser ------------------------------ *)

\* blockUser without the self check of lines 447-449
blockUser_find_noSelfCheck(c, requesterId, addresseeId) ==
  LET rec == NewCall("block", requesterId, addresseeId, "none")
      found == Contact_findPair(rows, requesterId, addresseeId) IN
  /\ IF ~User_findByPk(addresseeId)
       THEN Begin(c, Respond(rec, 404))
       ELSE IF found # {}
         THEN \E existingContact \in found :
                LET blocked == [id |-> existingContact.id, requesterId |-> requesterId,
                                addresseeId |-> addresseeId, status |-> "blocked"] IN
                Begin(c, [rec EXCEPT !.pc = "save", !.row = blocked,
                                     !.dirty = Changed(existingContact, blocked)])
         ELSE CanCreate /\ Begin(c, [rec EXCEPT !.pc = "create"])
  /\ UNCHANGED <<rows, nextId, lastOk, lastBlock, users>>

\* lines 444-469: validation, the lookup of the pair's row, and on a hit the
\* three assignments to the loaded instance
blockUser_find(c, requesterId, addresseeId) ==
  LET rec == NewCall("block", requesterId, addresseeId, "none")
      found == Contact_findPair(rows, requesterId, addresseeId) IN
  /\ IF requesterId = addresseeId
       THEN Begin(c, Respond(rec, 400))
       ELSE IF ~User_findByPk(addresseeId)
         THEN Begin(c, Respond(rec, 404))
         ELSE IF found # {}
           THEN \E existingContact \in found :
                  LET blocked == [id |-> existingContact.id, requesterId |-> requesterId,
                                  addresseeId |-> addresseeId, status |-> "blocked"] IN
                  Begin(c, [rec EXCEPT !.pc = "save", !.row = blocked,
                                       !.dirty = Changed(existingContact, blocked)])
           ELSE CanCreate /\ Begin(c, [rec EXCEPT !.pc = "create"])
  /\ UNCHANGED <<rows, nextId, lastOk, lastBlock, users>>

\* line 470: await existingContact.save(); the store rejects an update that
\* would give two rows the same pair
blockUser_save(c) ==
  LET rec == calls[c]
      after == Contact_save(rows, rec.row, rec.dirty) IN
  /\ rec.op = "block" /\ rec.pc = "save"
  /\ IF \A r \in after : r.id = rec.row.id => UniqueOk(after, r.id, r.requesterId, r.addresseeId)
       THEN /\ rows' = after
            /\ lastOk' = Committed("block", {rec.actor, rec.arg})
            /\ lastBlock' = [lastBlock EXCEPT ![{rec.actor, rec.arg}] = rec.actor]
            /\ Step(c, [rec EXCEPT !.pc = "respond", !.wrote = @ + 1])
       ELSE /\ UNCHANGED <<rows, lastOk, lastBlock>>
            /\ Step(c, Respond([rec EXCEPT !.fault = "constraint"], 500))
  /\ UNCHANGED <<nextId, users>>

\* the update branch notifying the target as the create branch does
blockUser_respond_notifying(c) ==
  LET rec == calls[c] IN
  /\ rec.op = "block" /\ rec.pc = "respond"
  /\ Step(c, Respond(Emit(rec, "youWereBlocked", rec.arg), 200))
  /\ UNCHANGED <<rows, nextId, lastOk, lastBlock, users>>

\* lines 471-474: the 200 of the update branch; nothing is emitted
blockUser_respond(c) ==
  LET rec == calls[c] IN
  /\ rec.op = "block" /\ rec.pc = "respond"
  /\ Step(c, Respond(rec, 200))
  /\ UNCHANGED <<rows, nextId, lastOk, lastBlock, users>>

\* lines 476-480: Contact.create of the blocked row
blockUser_create(c) ==
  LET rec == calls[c] IN
  /\ rec.op = "block" /\ rec.pc = "create"
  /\ IF UniqueOk(rows, nextId, rec.actor, rec.arg)
       THEN /\ rows' = Contact_create(rows, nextId, rec.actor, rec.arg, "blocked")
            /\ nextId' = nextId + 1
            /\ lastOk' = Committed("block", {rec.actor, rec.arg})
            /\ lastBlock' = [lastBlock EXCEPT ![{rec.actor, rec.arg}] = rec.actor]
            /\ Step(c, [rec EXCEPT !.pc = "notify", !.wrote = @ + 1,
                                   !.row = [id |-> nextId, requesterId |-> rec.actor,
                                            addresseeId |-> rec.arg, status |-> "blocked"]])
       ELSE /\ UNCHANGED <<rows, nextId, lastOk, lastBlock>>
            /\ Step(c, Respond([rec EXCEPT !.fault = "constraint"], 500))
  /\ UNCHANGED users

\* lines 481-486: the emit to the blocked user and the 201
blockUser_notify(c) ==
  LET rec == calls[c] IN
  /\ rec.op = "block" /\ rec.pc = "notify"
  /\ \E fault \in BOOLEAN :
       IF fault
         THEN Step(c, Respond([rec EXCEPT !.fault = "notify"], 500))
         ELSE Step(c, Respond(Emit(rec, "youWereBlocked", rec.arg), 201))
  /\ UNCHANGED <<rows, nextId, lastOk, lastBlock, users>>

(* ---------------------------- cancelRequest ---------------------------- *)

\* the lookup of line 501 without its requesterId condition
cancelRequest_find_anyCaller(c, requesterId, requestId) ==
  LET rec == NewCall("cancel", requesterId, requestId, "none")
      found == {r \in rows : r.id = requestId /\ r.status = "pending"} IN
  /\ IF found = {}
       THEN Begin(c, Respond(rec, 404))
       ELSE \E request \in found :
              Begin(c, [rec EXCEPT !.pc = "destroy", !.row = request])
  /\ UNCHANGED <<rows, nextId, lastOk, lastBlock, users>>

\* lines 498-510: the pending row with this id that the caller requested, or 404
cancelRequest_find(c, requesterId, requestId) ==
  LET rec == NewCall("cancel", requesterId, requestId, "none")
      found == {r \in rows : r.id = requestId /\ r.requesterId = requesterId
                               /\ r.status = "pending"} IN
  /\ IF found = {}
       THEN Begin(c, Respond(rec, 404))
       ELSE \E request \in found :
              Begin(c, [rec EXCEPT !.pc = "destroy", !.row = request])
  /\ UNCHANGED <<rows, nextId, lastOk, lastBlock, users>>

\* line 511: await request.destroy()
cancelRequest_destroy(c) ==
  LET rec == calls[c] IN
  /\ rec.op = "cancel" /\ rec.pc = "destroy"
  /\ rows' = Contact_destroy(rows, rec.row)
  /\ lastOk' = Committed("cancel", {rec.row.requesterId, rec.row.addresseeId})
  /\ Step(c, [rec EXCEPT !.pc = "notify", !.wrote = @ + 1])
  /\ UNCHANGED <<nextId, lastBlock, users>>

\* lines 512-516: the emit to the addressee and the 200
cancelRequest_notify(c) ==
  LET rec == calls[c] IN
  /\ rec.op = "cancel" /\ rec.pc = "notify"
  /\ \E fault \in BOOLEAN :
       IF fault
         THEN Step(c, Respond([rec EXCEPT !.fault = "notify"], 500))
         ELSE Step(c, Respond(Emit(rec, "friendRequestCancelled", rec.row.addresseeId), 200))
  /\ UNCHANGED <<rows, nextId, lastOk, lastBlock, users>>

(* ----------------------------- unblockUser ----------------------------- *)

\* unblockUser deleting the pair's blocked row before it checks who imposed it
unblockUser_find_eager(c, currentUserId, blockedUserId) ==
  LET rec == NewCall("unblock", currentUserId, blockedUserId, "none")
      blocked == {r \in Contact_findPair(rows, currentUserId, blockedUserId) :
                    r.status = "blocked"}
      found == {r \in blocked : r.requesterId = currentUserId} IN
  /\ IF found = {}
       THEN /\ rows' = rows \ blocked
            /\ Begin(c, Respond([rec EXCEPT !.wrote = Cardinality(blocked)], 401))
       ELSE /\ rows' = rows
            /\ \E contact \in found :
                 Begin(c, [rec EXCEPT !.pc = "destroy", !.row = contact])
  /\ UNCHANGED <<nextId, lastOk, lastBlock, users>>

\* lines 527-542: the blocked row the caller imposed on the target, or 401
unblockUser_find(c, currentUserId, blockedUserId) ==
  LET rec == NewCall("unblock", currentUserId, blockedUserId, "none")
      found == {r \in rows : r.requesterId = currentUserId
                               /\ r.addresseeId = blockedUserId
                               /\ r.status = "blocked"} IN
  /\ IF found = {}
       THEN Begin(c, Respond(rec, 401))
       ELSE \E contact \in found :
              Begin(c, [rec EXCEPT !.pc = "destroy", !.row = contact])
  /\ UNCHANGED <<rows, nextId, lastOk, lastBlock, users>>

\* unblock without the delete reaching the store
unblockUser_destroy_kept(c) ==
  LET rec == calls[c] IN
  /\ rec.op = "unblock" /\ rec.pc = "destroy"
  /\ rows' = rows
  /\ lastOk' = Committed("unblock", {rec.row.requesterId, rec.row.addresseeId})
  /\ Step(c, [rec EXCEPT !.pc = "notify", !.wrote = @ + 1])
  /\ UNCHANGED <<nextId, lastBlock, users>>

\* line 544: await contact.destroy()
unblockUser_destroy(c) ==
  LET rec == calls[c] IN
  /\ rec.op = "unblock" /\ rec.pc = "destroy"
  /\ rows' = Contact_destroy(rows, rec.row)
  /\ lastOk' = Committed("unblock", {rec.row.requesterId, rec.row.addresseeId})
  /\ Step(c, [rec EXCEPT !.pc = "notify", !.wrote = @ + 1])
  /\ UNCHANGED <<nextId, lastBlock, users>>

\* lines 545-549: the emit to the unblocked user and the 200
unblockUser_notify(c) ==
  LET rec == calls[c] IN
  /\ rec.op = "unblock" /\ rec.pc = "notify"
  /\ \E fault \in BOOLEAN :
       IF fault
         THEN Step(c, Respond([rec EXCEPT !.fault = "notify"], 500))
         ELSE Step(c, Respond(Emit(rec, "youWereUnblocked", rec.arg), 200))
  /\ UNCHANGED <<rows, nextId, lastOk, lastBlock, users>>

(* ------------------------------ getFriends ----------------------------- *)

\* the rows of a query result, in any order the store may return them
Orderings(S) ==
  {q \in [1..Cardinality(S) -> S] : \A i, j \in 1..Cardinality(S) : q[i] = q[j] => i = j}

\* the included association: the user record of an id, or null (0)
UserRecord(id) == IF id \in users THEN id ELSE 0

\* getOtherUser without the comparison: always the requester
getOtherUser_requester(contact, userId) == UserRecord(contact.requesterId)

\* lines 10-13
getOtherUser(contact, userId) ==
  IF contact.requesterId = userId THEN UserRecord(contact.addresseeId)
                                  ELSE UserRecord(contact.requesterId)

\* lines 40-46: map to the other party, drop the nulls
FriendsList(contacts, userId) ==
  LET others == [i \in 1..Len(contacts) |-> getOtherUser(contacts[i], userId)]
      NotNull(friend) == friend # 0
  IN SelectSeq(others, NotNull)

Range(q) == {q[i] : i \in 1..Len(q)}

\* the content of the two external read-only stores: between users 1 and 2
\* the latest message is 1, between 1 and 3 it is 3, between 2 and 3 there is
\* none; user 1 has a counter for 2 and a group counter for 3, user 2 a counter
\* of zero for 1
MessageStore ==
  {[id |-> 1, senderId |-> 1, receiverId |-> 2, createdAt |-> 5],
   [id |-> 2, senderId |-> 2, receiverId |-> 1, createdAt |-> 4],
   [id |-> 3, senderId |-> 3, receiverId |-> 1, createdAt |-> 6]}

UnreadStore ==
  {[userId |-> 1, chatType |-> "individual", chatId |-> 2, count |-> 3],
   [userId |-> 2, chatType |-> "individual", chatId |-> 1, count |-> 0],
   [userId |-> 1, chatType |-> "group", chatId |-> 3, count |-> 7],
   [userId |-> 3, chatType |-> "individual", chatId |-> 1, count |-> 2]}

\* lines 62-77: the latest message between the two users, or null (0)
Message_findLast(M, userId, friendId) ==
  LET between == {m \in M : \/ m.senderId = userId /\ m.receiverId = friendId
                            \/ m.senderId = friendId /\ m.receiverId = userId} IN
  IF between = {} THEN 0
  ELSE (CHOOSE m \in between : \A n \in between : n.createdAt <= m.createdAt).id

\* lines 91-94 and 126: countMap[friend.id] || 0
UnreadOf(counts, friendId) ==
  IF \E u \in counts : u.chatId = friendId
    THEN (CHOOSE u \in counts : u.chatId = friendId).count
    ELSE 0

\* lines 18-46: the primary load of the accepted rows touching the caller
getFriends_findAll(c, userId) ==
  LET rec == NewCall("friends", userId, 0, "none")
      accepted == {r \in rows : r.status = "accepted"
                                /\ (r.requesterId = userId \/ r.addresseeId = userId)} IN
  /\ \E fault \in BOOLEAN :
       IF fault
         THEN Begin(c, Respond([rec EXCEPT !.fault = "primary"], 500))
         ELSE \E contacts \in Orderings(accepted) :
                Begin(c, [rec EXCEPT !.pc = "unread", !.contacts = contacts])
  /\ UNCHANGED <<rows, nextId, lastOk, lastBlock, users>>

\* lines 49-56: the batch load of the unread counters; it has no catch of its
\* own, a failure lands in the catch of lines 137-140
getFriends_unread(c) ==
  LET rec == calls[c]
      friendIds == Range(FriendsList(rec.contacts, rec.actor)) IN
  /\ rec.op = "friends" /\ rec.pc = "unread"
  /\ \E fault \in BOOLEAN :
       IF fault
         THEN Step(c, Respond([rec EXCEPT !.fault = "unread"], 500))
         ELSE Step(c, [rec EXCEPT !.pc = "lastMessages",
                         !.counts = {u \in UnreadStore : /\ u.userId = rec.actor
                                                         /\ u.chatType = "individual"
                                                         /\ u.chatId \in friendIds}])
  /\ UNCHANGED <<rows, nextId, lastOk, lastBlock, users>>

\* the lookups without their own catch: one failure rejects Promise.all
getFriends_lastMessages_uncaught(c) ==
  LET rec == calls[c]
      friendsList == FriendsList(rec.contacts, rec.actor) IN
  /\ rec.op = "friends" /\ rec.pc = "lastMessages"
  /\ \E failing \in SUBSET Range(friendsList) :
       LET friendsWithData ==
             [i \in 1..Len(friendsList) |->
                [id |-> friendsList[i],
                 unreadCount |-> UnreadOf(rec.counts, friendsList[i]),
                 lastMessage |-> Message_findLast(MessageStore, rec.actor, friendsList[i])]]
       IN IF failing = {}
            THEN Step(c, Respond([rec EXCEPT !.friends = friendsWithData], 200))
            ELSE Step(c, Respond([rec EXCEPT !.failed = failing], 500))
  /\ UNCHANGED <<rows, nextId, lastOk, lastBlock, users>>

\* lines 59-136: one lookup per friend, each with its own catch (failing is the
\* set of friends whose lookup throws), then the merge and the 200
getFriends_lastMessages(c) ==
  LET rec == calls[c]
      friendsList == FriendsList(rec.contacts, rec.actor) IN
  /\ rec.op = "friends" /\ rec.pc = "lastMessages"
  /\ \E failing \in SUBSET Range(friendsList) :
       LET lastMessage(friendId) ==
             IF friendId \in failing THEN 0
             ELSE Message_findLast(MessageStore, rec.actor, friendId)
           friendsWithData ==
             [i \in 1..Len(friendsList) |->
                [id |-> friendsList[i],
                 unreadCount |-> UnreadOf(rec.counts, friendsList[i]),
                 lastMessage |-> lastMessage(friendsList[i])]]
       IN Step(c, Respond([rec EXCEPT !.friends = friendsWithData, !.failed = failing], 200))
  /\ UNCHANGED <<rows, nextId, lastOk, lastBlock, users>>

(* --------------------------- specification ----------------------------- *)

InitCore ==
  /\ rows = {}
  /\ nextId = 1
  /\ calls = [c \in Slots |-> Idle]
  /\ last = Idle
  /\ lastOk = [p \in PairsOf(users) |-> "none"]
  /\ lastBlock = [p \in PairsOf(users) |-> 0]

Init ==
  /\ users = 1..NumUsers
  /\ InitCore

\* a handler starts, called by one of the users of A (req.user.id)
StartsBy(A) ==
  \/ \E c \in Slots, a \in A, t \in Targets : sendFriendRequest_find(c, a, t)
  \/ \E c \in Slots, a \in A, id \in RequestIds, act \in Actions :
       updateFriendRequest_find(c, a, id, act)
  \/ \E c \in Slots, a \in A, t \in Targets : removeFriend_find(c, a, t)
  \/ \E c \in Slots, a \in A, t \in Targets : blockUser_find(c, a, t)
  \/ \E c \in Slots, a \in A, id \in RequestIds : cancelRequest_find(c, a, id)
  \/ \E c \in Slots, a \in A, t \in Targets : unblockUser_find(c, a, t)

\* a handler starts
Starts == StartsBy(users)

\* a handler resumes after an await
Resumes ==
  \/ \E c \in Slots : sendFriendRequest_create(c)
  \/ \E c \in Slots : sendFriendRequest_notify(c)
  \/ \E c \in Slots : updateFriendRequest_save(c)
  \/ \E c \in Slots : updateFriendRequest_notifyAccept(c)
  \/ \E c \in Slots : updateFriendRequest_destroy(c)
  \/ \E c \in Slots : updateFriendRequest_notifyDecline(c)
  \/ \E c \in Slots : removeFriend_destroy(c)
  \/ \E c \in Slots : removeFriend_notify(c)
  \/ \E c \in Slots : blockUser_save(c)
  \/ \E c \in Slots : blockUser_respond(c)
  \/ \E c \in Slots : blockUser_create(c)
  \/ \E c \in Slots : blockUser_notify(c)
  \/ \E c \in Slots : cancelRequest_destroy(c)
  \/ \E c \in Slots : cancelRequest_notify(c)
  \/ \E c \in Slots : unblockUser_destroy(c)
  \/ \E c \in Slots : unblockUser_notify(c)

\* the state machine under any interleaving of its handlers
Next == Starts \/ Resumes \/ Return

Spec == Init /\ [][Next]_vars

SeqInit ==
  /\ users = 1..(NumUsers + 1)
  /\ InitCore

\* no handler is in flight
Quiet == \A c \in Slots : Free(c)

\* the handlers called one after the other, each running to its response
\* before the next starts, together with the read path
SeqNext ==
  \/ Quiet /\ Starts
  \/ Quiet /\ \E c \in Slots, a \in users : getFriends_findAll(c, a)
  \/ \E c \in Slots : getFriends_unread(c)
  \/ \E c \in Slots : getFriends_lastMessages(c)
  \/ Resumes
  \/ Return

SeqSpec == SeqInit /\ [][SeqNext]_vars

\* the state after blockUser(1, 2) on the empty store has returned 201
BlockedInit ==
  /\ users = 1..(NumUsers + 1)
  /\ rows = {[id |-> 1, requesterId |-> 1, addresseeId |-> 2, status |-> "blocked"]}
  /\ nextId = 2
  /\ calls = [c \in Slots |-> Idle]
  /\ last = Idle
  /\ lastOk = [p \in PairsOf(users) |-> IF p = {1, 2} THEN "block" ELSE "none"]
  /\ lastBlock = [p \in PairsOf(users) |-> IF p = {1, 2} THEN 1 ELSE 0]

\* from there the blocker stays silent: the handlers are called one after the
\* other by the other users only
BlockedNext ==
  \/ Quiet /\ StartsBy(users \ {1})
  \/ Resumes
  \/ Return

BlockedSpec == BlockedInit /\ [][BlockedNext]_vars

(* ------------------------------- claims -------------------------------- *)

\* the rows of the unordered pair {a, b}
RowsOfPair(a, b) == {r \in rows : {r.requesterId, r.addresseeId} = {a, b}}

\* the statuses of a validation or authorization failure
FailureCodes == {400, 401, 403, 404, 409}

\* C1 (invariant I1): in every reachable state, under every interleaving of the
\* six mutating handlers, no two rows have the same unordered pair of users.
C1_OneRowPerPair ==
  \A r1, r2 \in rows :
    {r1.requesterId, r1.addresseeId} = {r2.requesterId, r2.addresseeId} => r1 = r2

\* two writers raced for one pair: the store has rejected the second create
\* while the first writer's row is there
C1_Witness ==
  /\ last.op \in {"request", "block"}
  /\ last.fault = "constraint"
  /\ RowsOfPair(last.actor, last.arg) # {}

\* C2: of two requestConnection calls that race for one pair at most one
\* creates its row (no call returns 201 for a create that followed another
\* call's create on the pair with no removal in between), and the one the
\* store's uniqueness constraint rejects returns 409 (Conflict), not 500.
C2_LoserGetsConflict ==
  /\ (last.op = "request" /\ last.status = 201) => last.prev # "request"
  /\ (last.op = "request" /\ last.fault = "constraint") => last.status = 409

\* C3 (invariant I3): when a blockUser(u, v) call returns success and its
\* write is still the latest committed mutation of the pair, the pair has
\* exactly one row, and it is blocked with requesterId = u and addresseeId = v;
\* and in every state a blocked row's requesterId is the user whose blockUser
\* on the pair was committed last.  Both under every interleaving of blockUser
\* with accept, decline, cancel, remove and blockUser on the same pair.
C3_BlockPrecedence ==
  /\ ( /\ last.op = "block" /\ last.status \in {200, 201}
       /\ lastOk[{last.actor, last.arg}] = "block"
       /\ lastBlock[{last.actor, last.arg}] = last.actor )
     => RowsOfPair(last.actor, last.arg) =
          {[id |-> last.row.id, requesterId |-> last.actor,
            addresseeId |-> last.arg, status |-> "blocked"]}
  /\ \A r \in rows :
        r.status = "blocked" => r.requesterId = lastBlock[{r.requesterId, r.addresseeId}]

\* C4: a call of a mutating handler that returns 400, 401, 403, 404 or 409 has
\* committed no store mutation: it created, updated and deleted nothing.
C4_FailureWritesNothing ==
  last.status \in FailureCodes => last.wrote = 0

\* a respond call is refused with 409 while the row it names is in the store
C4_Witness ==
  /\ last.op = "respond"
  /\ last.status = 409
  /\ last.row \in rows

\* C5: once a mutating handler has committed its store mutation, the call
\* returns 200 or 201, whatever happens to the profile lookup and the emit
\* that follow.
C5_CommittedMeansSuccess ==
  last.wrote > 0 => last.status \in {200, 201}

\* the ids of the entries of a friends result
Ids(friends) == {friends[i].id : i \in 1..Len(friends)}

\* the users that are the other party of an accepted row touching self
AcceptedOthers(self) ==
  {v \in users \ {self} :
     \E r \in rows : r.status = "accepted" /\ {r.requesterId, r.addresseeId} = {self, v}}

\* the messages exchanged between two users
Between(a, b) == {m \in MessageStore : {m.senderId, m.receiverId} = {a, b}}

\* C6: in a sequential execution, while the accept of a request is the latest
\* committed mutation of the pair {u, v}, friends(u) includes v and friends(v)
\* includes u.
C6_AcceptedAreFriends ==
  (last.op = "friends" /\ last.status = 200) =>
     \A v \in users \ {last.actor} :
        lastOk[{last.actor, v}] = "accept" => v \in Ids(last.friends)

\* friends(2) answers with user 1 after 2 accepted the request of 1
C6_Witness ==
  /\ last.op = "friends" /\ last.status = 200 /\ last.actor = 2
  /\ lastOk[{1, 2}] = "accept"
  /\ [id |-> 1, requesterId |-> 1, addresseeId |-> 2, status |-> "accepted"] \in rows
  /\ 1 \in Ids(last.friends)

\* C7: a friends call whose two loads went through returns 200 whatever subset
\* of the last-message lookups fails; every friend is in the result, a friend
\* whose lookup failed has no last message, and every other friend has the
\* latest message exchanged with the caller (none if there is none).
C7_LookupFailuresIsolated ==
  (last.op = "friends" /\ last.fault \notin {"primary", "unread"}) =>
     /\ last.status = 200
     /\ Ids(last.friends) = AcceptedOthers(last.actor)
     /\ \A i \in 1..Len(last.friends) :
          LET e == last.friends[i] IN
          IF e.id \in last.failed
            THEN e.lastMessage = 0
            ELSE IF Between(last.actor, e.id) = {}
              THEN e.lastMessage = 0
              ELSE \E m \in Between(last.actor, e.id) :
                     /\ e.lastMessage = m.id
                     /\ \A n \in Between(last.actor, e.id) : n.createdAt <= m.createdAt

\* user 1 has the friends 2 and 3; the lookup for 2 failed, the one for 3 did not
C7_Witness ==
  /\ last.op = "friends" /\ last.status = 200 /\ last.actor = 1
  /\ last.failed = {2}
  /\ \E i, j \in 1..Len(last.friends) :
       /\ last.friends[i].id = 2 /\ last.friends[i].lastMessage = 0
       /\ last.friends[j].id = 3 /\ last.friends[j].lastMessage = 3

\* C8: a friends call returns 500 only when the primary load of the accepted
\* rows failed; a failure of the unread-counter load or of a last-message
\* lookup does not make it fail.
C8_OnlyPrimaryLoadFails ==
  (last.op = "friends" /\ last.status = 500) => last.fault = "primary"

\* C9: friends(self) returns exactly the other parties of the accepted rows
\* touching self, each once and never self, and a friend with no stored
\* individual unread counter of self has unread count 0.
C9_ExactlyTheAccepted ==
  (last.op = "friends" /\ last.status = 200) =>
     /\ Ids(last.friends) = AcceptedOthers(last.actor)
     /\ Len(last.friends) = Cardinality(Ids(last.friends))
     /\ last.actor \notin Ids(last.friends)
     /\ \A i \in 1..Len(last.friends) :
          (~\E u \in UnreadStore : /\ u.userId = last.actor
                                   /\ u.chatType = "individual"
                                   /\ u.chatId = last.friends[i].id)
            => last.friends[i].unreadCount = 0

\* user 1 has the friend 3, for whom only a group counter is stored, and a
\* row with user 2 that is not accepted: the result is user 3 alone, count 0
C9_Witness ==
  /\ last.op = "friends" /\ last.status = 200 /\ last.actor = 1
  /\ \E r \in rows : r.status # "accepted" /\ {r.requesterId, r.addresseeId} = {1, 2}
  /\ Len(last.friends) = 1
  /\ last.friends[1].id = 3 /\ last.friends[1].unreadCount = 0

\* C10: in a sequential execution, once unblockUser has deleted the blocked
\* row no row remains for the pair, and a requestConnection on the pair that
\* comes next is not refused: it creates a pending row with the caller as
\* requester and returns 201 (500 if its notification fails, see C5).
C10_UnblockThenRequest ==
  /\ (last.op = "unblock" /\ last.wrote > 0) => RowsOfPair(last.actor, last.arg) = {}
  /\ (last.op = "request" /\ last.arg \in users \ {last.actor}) =>
        lastOk[{last.actor, last.arg}] # "unblock"
  /\ (last.op = "request" /\ last.prev = "unblock") =>
        /\ last.status = 201 \/ last.fault = "notify"
        /\ RowsOfPair(last.actor, last.arg) =
             {[id |-> last.row.id, requesterId |-> last.actor,
               addresseeId |-> last.arg, status |-> "pending"]}

\* user 1 blocked 2, unblocked, and the request of 1 to 2 that follows returns 201
C10_Witness ==
  /\ last.op = "request" /\ last.status = 201 /\ last.prev = "unblock"
  /\ last.actor = 1 /\ last.arg = 2
  /\ lastBlock[{1, 2}] = 1

\* the status of an unordered pair: that of its row, or absent
PairStatus(S, p) ==
  LET of == {r \in S : {r.requesterId, r.addresseeId} = p} IN
  IF of = {} THEN "absent" ELSE (CHOOSE r \in of : TRUE).status

\* the edges of the pair state machine
Edges ==
  {<<"absent", "pending">>, <<"pending", "accepted">>, <<"pending", "absent">>,
   <<"accepted", "absent">>, <<"absent", "blocked">>, <<"pending", "blocked">>,
   <<"accepted", "blocked">>, <<"blocked", "absent">>}

\* C11: in every execution, interleaved handlers included, the status of an
\* unordered pair changes only along the edges absent->pending,
\* pending->accepted, pending->absent, accepted->absent,
\* {absent, pending, accepted}->blocked and blocked->absent; so a blocked row
\* never becomes accepted or pending, an accepted row never becomes pending,
\* and a row becomes accepted only from pending.
C11_OnlyListedEdges ==
  [][\A p \in PairsOf(users) :
       PairStatus(rows, p) # PairStatus(rows', p) =>
         <<PairStatus(rows, p), PairStatus(rows', p)>> \in Edges]_vars

\* a call of op enters slot c in this step: it has passed its guards
Started(c, op) == calls[c].pc = "idle" /\ calls'[c].op = op

\* a call of op is answered in the step of its lookup, before any write
Refused(op) == last = Idle /\ last'.op = op /\ calls' = calls

C13_RequestOutcomes ==
  [][/\ Refused("request") =>
          /\ rows' = rows /\ last'.wrote = 0
          /\ last'.status =
               IF last'.actor = last'.arg THEN 400
               ELSE IF last'.arg \notin users THEN 404
               ELSE 409
          /\ last'.status = 409 => RowsOfPair(last'.actor, last'.arg) # {}
     /\ \A c \in Slots :
          Started(c, "request") =>
            /\ calls'[c].actor # calls'[c].arg
            /\ calls'[c].arg \in users
            /\ RowsOfPair(calls'[c].actor, calls'[c].arg) = {}
     /\ (last'.op = "request" /\ last'.wrote > 0) =>
          /\ last'.row.requesterId = last'.actor
          /\ last'.row.addresseeId = last'.arg
          /\ last'.row.status = "pending"
    ]_vars

\* C14 (invariant I2): in every reachable state every row has
\* requesterId # addresseeId, and requestConnection(u, u) and blockUser(u, u)
\* answer InvalidOperation (400) and create no row.
C14_NoSelfRow ==
  /\ \A r \in rows : r.requesterId # r.addresseeId
  /\ \A c \in Slots : calls[c].op \in {"request", "block"} => calls[c].actor # calls[c].arg
  /\ (last.op \in {"request", "block"} /\ last.actor = last.arg) =>
        last.status = 400 /\ last.wrote = 0

\* blockUser(u, u) is refused while the store holds a row
C14_Witness ==
  /\ last.op = "block" /\ last.actor = last.arg /\ last.status = 400
  /\ rows # {}

\* the events a successful call of each transition is to emit
EventsOf(rec) ==
  IF rec.op = "request" THEN <<<<"newFriendRequest", rec.arg>>>>
  ELSE IF rec.op = "respond" /\ rec.action = "accept"
    THEN <<<<"friendRequestAccepted", rec.row.requesterId>>, <<"newFriendAdded", rec.actor>>>>
  ELSE IF rec.op = "respond" THEN <<<<"friendRequestDeclined", rec.row.requesterId>>>>
  ELSE IF rec.op = "cancel" THEN <<<<"friendRequestCancelled", rec.row.addresseeId>>>>
  ELSE IF rec.op = "remove" THEN <<<<"friendRemoved", rec.arg>>>>
  ELSE IF rec.op = "unblock" THEN <<<<"youWereUnblocked", rec.arg>>>>
  ELSE IF rec.op = "block" /\ rec.status = 201 THEN <<<<"youWereBlocked", rec.arg>>>>
  ELSE <<>>

\* C15: a successful accept emits exactly two events, friendRequestAccepted to
\* the requester of the row and newFriendAdded to the acceptor; every other
\* successful transition emits at most one event, to the other party of the
\* pair and never to the actor: newFriendRequest to the target,
\* friendRequestDeclined to the requester, friendRequestCancelled to the
\* addressee, friendRemoved to the other friend, youWereUnblocked to the
\* target.
C15_EventsOfSuccess ==
  (last.op \in {"request", "respond", "cancel", "remove", "block", "unblock"}
     /\ last.status \in {200, 201}) =>
     /\ last.emitted = EventsOf(last)
     /\ (last.op = "respond" /\ last.action = "accept") =>
          /\ Len(last.emitted) = 2
          /\ last.emitted[1][2] # last.actor
          /\ last.emitted[1][2] = last.row.requesterId
     /\ ~(last.op = "respond" /\ last.action = "accept") =>
          /\ Len(last.emitted) <= 1
          /\ \A i \in 1..Len(last.emitted) :
               /\ last.emitted[i][2] # last.actor
               /\ last.emitted[i][2] \in {last.arg, last.row.requesterId, last.row.addresseeId}

\* user 2 accepted the request of user 1: both were notified
C15_Witness ==
  /\ last.op = "respond" /\ last.action = "accept" /\ last.status = 200
  /\ last.actor = 2
  /\ last.emitted = <<<<"friendRequestAccepted", 1>>, <<"newFriendAdded", 2>>>>

\* the call in slot c moves from position from to position to in this step
Moves(c, op, from, to) ==
  calls[c].op = op /\ calls[c].pc = from /\ calls'[c].pc = to

\* the call in slot c is answered in this step, from position from
Answers(c, op, from) ==
  calls[c].op = op /\ calls[c].pc = from /\ calls'[c].pc = "idle"

\* C16: in a sequential execution blockUser(actor, target) creates a new
\* blocked row, emits youWereBlocked to target and returns 201 exactly when no
\* row existed for the pair; when a row of any status existed it is overwritten
\* in place (same id, requesterId = actor, addresseeId = target, blocked), no
\* row is created, the call returns 200 and emits nothing.
C16_BlockBranches ==
  [][/\ (last = Idle /\ last'.op = "block" /\ last'.status = 201) =>
          \E c \in Slots : Answers(c, "block", "notify")
     /\ (last = Idle /\ last'.op = "block" /\ last'.status = 200) =>
          \E c \in Slots : Answers(c, "block", "respond")
     /\ \A c \in Slots :
       /\ Started(c, "block") =>
            (calls'[c].pc = "create" <=> RowsOfPair(calls'[c].actor, calls'[c].arg) = {})
       /\ Moves(c, "block", "create", "notify") =>
            /\ rows' = rows \cup {[id |-> nextId, requesterId |-> calls[c].actor,
                                   addresseeId |-> calls[c].arg, status |-> "blocked"]}
            /\ Cardinality(rows') = Cardinality(rows) + 1
       /\ Moves(c, "block", "save", "respond") =>
            /\ \E r \in rows :
                 /\ {r.requesterId, r.addresseeId} = {calls[c].actor, calls[c].arg}
                 /\ rows' = (rows \ {r}) \cup
                      {[id |-> r.id, requesterId |-> calls[c].actor,
                        addresseeId |-> calls[c].arg, status |-> "blocked"]}
            /\ nextId' = nextId
       /\ Answers(c, "block", "notify") =>
            \/ last'.status = 201 /\ last'.emitted = <<<<"youWereBlocked", last'.arg>>>>
            \/ last'.status = 500 /\ last'.fault = "notify"
       /\ Answers(c, "block", "respond") =>
            last'.status = 200 /\ last'.emitted = <<>>
    ]_vars

\* blockUser(1, 2) on an existing row of the pair: 200, nothing emitted, no
\* row created since, and the pair's one row is that row, now blocked by user 1
C16_Witness ==
  /\ last.op = "block" /\ last.status = 200 /\ last.actor = 1 /\ last.arg = 2
  /\ last.emitted = <<>>
  /\ lastOk[{1, 2}] = "block"
  /\ RowsOfPair(1, 2) = {[id |-> last.row.id, requesterId |-> 1,
                          addresseeId |-> 2, status |-> "blocked"]}
  /\ nextId = last.row.id + 1

\* the rows cancelRequest(actor, requestId) and unblockUser(actor, target)
\* may delete
Cancellable(actor, requestId) ==
  {r \in rows : r.id = requestId /\ r.requesterId = actor /\ r.status = "pending"}
Unblockable(actor, target) ==
  {r \in rows : r.requesterId = actor /\ r.addresseeId = target /\ r.status = "blocked"}

\* C17: cancelRequest(actor, requestId) goes on to delete the row and notify
\* its addressee only if, when the call looks it up, the row with that id has
\* requesterId = actor and is pending, and unblockUser(actor, target) goes on
\* to delete the row and notify target only if a row then has requesterId =
\* actor, addresseeId = target and is blocked; in every other case (wrong actor, wrong status, no row) the call
\* returns the merged failure (404 for cancel, 401 for unblock), leaves the
\* store unchanged and emits nothing.
C17_OnlyRequesterDeletes ==
  [][/\ Refused("cancel") =>
          /\ Cancellable(last'.actor, last'.arg) = {}
          /\ last'.status = 404 /\ rows' = rows
          /\ last'.wrote = 0 /\ last'.emitted = <<>>
     /\ Refused("unblock") =>
          /\ Unblockable(last'.actor, last'.arg) = {}
          /\ last'.status = 401 /\ rows' = rows
          /\ last'.wrote = 0 /\ last'.emitted = <<>>
     /\ \A c \in Slots :
          /\ Started(c, "cancel") =>
               calls'[c].row \in Cancellable(calls'[c].actor, calls'[c].arg)
          /\ Started(c, "unblock") =>
               calls'[c].row \in Unblockable(calls'[c].actor, calls'[c].arg)
          /\ (Moves(c, "cancel", "destroy", "notify")
                \/ Moves(c, "unblock", "destroy", "notify")) =>
               rows' = {r \in rows : r.id # calls[c].row.id}
     /\ (last = Idle /\ last'.op = "cancel" /\ last'.emitted # <<>>) =>
          /\ last'.wrote = 1 /\ last'.row.requesterId = last'.actor
          /\ last'.emitted = <<<<"friendRequestCancelled", last'.row.addresseeId>>>>
     /\ (last = Idle /\ last'.op = "unblock" /\ last'.emitted # <<>>) =>
          /\ last'.wrote = 1 /\ last'.row.requesterId = last'.actor
          /\ last'.emitted = <<<<"youWereUnblocked", last'.row.addresseeId>>>>
    ]_vars

\* the addressee of a pending request tries to cancel it: 404, the row stays
C17_Witness ==
  /\ last.op = "cancel" /\ last.status = 404
  /\ \E r \in rows : r.id = last.arg /\ r.addresseeId = last.actor /\ r.status = "pending"

\* C18: for one request id, under every interleaving of accept, decline and
\* cancelRequest, at most one of the calls succeeds: none of them writes after
\* a conflicting one has written (the row is still pending when it writes,
\* unless a handler other than these three changed it last, or an accept
\* follows an accept); and when an accept returns 200 with its save the latest committed mutation
\* of the pair, the row exists with status accepted.
C18_OneResponseWins ==
  [][/\ \A c \in Slots :
          ( \/ Moves(c, "respond", "save", "notify")
            \/ Moves(c, "respond", "destroy", "notify")
            \/ Moves(c, "cancel", "destroy", "notify") ) =>
            \/ \E r \in rows : r.id = calls[c].row.id /\ r.status = "pending"
            \/ lastOk[{calls[c].row.requesterId, calls[c].row.addresseeId}]
                 \notin {"accept", "decline", "cancel"}
            \/ /\ calls[c].action = "accept"
               /\ lastOk[{calls[c].row.requesterId, calls[c].row.addresseeId}] = "accept"
     /\ ( /\ last = Idle /\ last'.op = "respond" /\ last'.action = "accept"
          /\ last'.status = 200
          /\ lastOk'[{last'.row.requesterId, last'.row.addresseeId}] = "accept" ) =>
            \E r \in rows' : r.id = last'.row.id /\ r.status = "accepted"
    ]_vars

\* the calls in flight and the call just answered
Records == {calls[c] : c \in Slots} \cup {last}

\* C19: every emitted event follows a committed store mutation of the same
\* call: a call has emitted nothing before its create, save or destroy has
\* completed, and a call answered with a validation or authorization failure,
\* or whose write the store rejected, has emitted nothing.
C19_EmitAfterCommit ==
  /\ \A rec \in Records : rec.emitted # <<>> => rec.wrote > 0
  /\ (last.status \in FailureCodes \/ last.fault = "constraint") => last.emitted = <<>>

\* removeConnection(1, 2) has destroyed the row, then notified user 2
C19_Witness ==
  /\ last.op = "remove" /\ last.status = 200 /\ last.actor = 1
  /\ last.wrote = 1
  /\ last.emitted = <<<<"friendRemoved", 2>>>>
  /\ RowsOfPair(1, 2) = {}

\* C20: a block holds against the blocked user.  Once user 1 has blocked user
\* 2, no sequence of operations issued by user 2 (or a third user) leads to a
\* state in which the pair {1, 2} has no row, a pending row or an accepted
\* row: the pair stays blocked until user 1 unblocks.
C20_BlockHolds == PairStatus(rows, {1, 2}) = "blocked"

====
